---- MODULE Spec2Model ----
(***************************************************************************)
(* Model of leafmachine-demo/main.py: the Kafka worker start_kafka, which  *)
(* for every consumed message marks the job as running, calls the          *)
(* LeafMachine inference service, maps the detections to annotations,      *)
(* publishes one annotation event, and on any exception sends a failure    *)
(* message to the topic mas-failed; and of run_local, the local test run.  *)
(*                                                                         *)
(* Python dicts are functions whose DOMAIN is the set of keys present, so  *)
(* d.get(k) and d[k] behave as in the code when a key is absent.  A call   *)
(* that may raise is an operator returning Return(v) or Raise(message).    *)
(***************************************************************************)
EXTENDS Integers, Sequences, FiniteSets, TLC

\* ---------------------------------------------------------------- bounds
MaxMsgs == 2
MaxDets == 2

\* ------------------------------------------------------- python plumbing
Return(v) == [ok |-> TRUE, value |-> v]
Raise(m) == [ok |-> FALSE, err |-> m]
HasKey(d, k) == k \in DOMAIN d
KeyError(k) == "'" \o k \o "'"

\* ------------------------------------------------------ the shared module
ODS_ID == "id"
ODS_TYPE == "type"
get_agent == "agent"
EmptyMessage == "Leafpriority model found no plant components in this image"
ModelRef == "https://github.com/kymillev/demo-enrichment-service-image"
FailedTopic == "mas-failed"
ProducerTopic == "KAFKA_PRODUCER_TOPIC"

build_fragment_selector(annotation, width, height) ==
    [kind |-> "box", box |-> annotation["boundingBox"],
     height |-> height, width |-> width]

build_entire_image_fragment_selector(height, width) ==
    [kind |-> "full", height |-> height, width |-> width]

map_to_annotation(ods_agent, timestamp, oa_value, oa_selector, target_id, target_type, dcterms_ref) ==
    [timestamp |-> timestamp, agent |-> ods_agent,
     motivation |-> "oa:classifying", body |-> oa_value,
     selector |-> oa_selector, targetId |-> target_id,
     targetType |-> target_type, ref |-> dcterms_ref]

map_to_annotation_str_val(ods_agent, timestamp, oa_value, oa_selector, target_id, target_type, dcterms_ref, motivation) ==
    [timestamp |-> timestamp, agent |-> ods_agent,
     motivation |-> motivation, body |-> oa_value,
     selector |-> oa_selector, targetId |-> target_id,
     targetType |-> target_type, ref |-> dcterms_ref]

\* ------------------------------------------------------------ the inputs
JobIds == {"J1", "J2"}

\* The digital objects of a message: the identifier or the type may be absent.
DigitalObjects ==
    { [k \in ({"ac:accessURI"} \cup ks) |->
          IF k = ODS_ID THEN "X1"
          ELSE IF k = ODS_TYPE THEN "Specimen" ELSE "img1"] :
      ks \in { {ODS_ID, ODS_TYPE}, {ODS_ID}, {ODS_TYPE} } }

\* The inbound messages: jobId and object may each be absent.
Messages ==
    { [k \in {"object"} |-> o] : o \in DigitalObjects }
    \cup { [k \in {"jobId"} |-> j] : j \in JobIds }
    \cup { [k \in {"jobId", "object"} |-> IF k = "jobId" THEN jo[1] ELSE jo[2]] :
           jo \in JobIds \X DigitalObjects }
    \cup { [k \in {} |-> "none"] }

\* The detection records the inference service may return: the second has a
\* box outside the image and a score above 100.
DetPool ==
    { [bbox |-> <<0, 0, 1, 1>>, class_name |-> "leaf", confidence |-> 90],
      [bbox |-> <<2, 1, 9, 9>>, class_name |-> "flower", confidence |-> 150] }

RECURSIVE SeqsUpTo(_, _)
SeqsUpTo(S, n) ==
    IF n = 0 THEN { <<>> }
    ELSE LET shorter == SeqsUpTo(S, n - 1)
         IN shorter \cup { Append(s, x) : s \in { t \in shorter : Len(t) = n - 1 }, x \in S }

\* The "detections" entry of the response body: absent, null, or a list.
DetectionFields ==
    { [kind |-> "missing"], [kind |-> "null"] }
    \cup { [kind |-> "list", items |-> s] : s \in SeqsUpTo(DetPool, MaxDets) }

\* metadata.orig_img_shape of the response body: no metadata, no shape entry,
\* or a list [height, width, channels] cut to one, two or three entries.
FullShape == <<4, 3, 1>>
ShapeFields ==
    { [kind |-> "nometa"], [kind |-> "noshape"] }
    \cup { [kind |-> "list", items |-> SubSeq(FullShape, 1, k)] : k \in 1..Len(FullShape) }

\* The responses of the inference service: the non-success answer 500 Internal
\* Server Error, or a body.
BadResponse == [ok |-> FALSE, detections |-> [kind |-> "missing"], shape |-> [kind |-> "nometa"]]
Responses ==
    { BadResponse }
    \cup { [ok |-> TRUE, detections |-> d, shape |-> s] :
           d \in DetectionFields, s \in ShapeFields }

\* ------------------------------------------------- main.py: pure functions
server_url == "https://herbaria.idlab.ugent.be/inference/process_image/"

\* str(e) of the HTTPError of response.raise_for_status() for the answer 500.
HTTPErrorText == "500 Server Error: Internal Server Error for url: " \o server_url

\* str(e) of the ValueError of img_height, img_width = img_shape[:2] when the
\* slice holds got values.
UnpackErrorText(got) ==
    "not enough values to unpack (expected 2, got " \o ToString(got) \o ")"

\* Mutant of run_leafmachine: the confidence is clamped to 100.
run_leafmachine_clamped(image_uri, response) ==
    IF ~response.ok THEN Raise(HTTPErrorText)
    ELSE IF response.shape.kind = "nometa" THEN Raise(KeyError("metadata"))
    ELSE IF response.shape.kind = "noshape" THEN Raise(KeyError("orig_img_shape"))
    ELSE IF Len(response.shape.items) < 2 THEN Raise(UnpackErrorText(Len(response.shape.items)))
    ELSE IF response.detections.kind = "null" THEN Raise("'NoneType' object is not iterable")
    ELSE LET detections == IF response.detections.kind = "missing"
                           THEN << >>
                           ELSE response.detections.items
         IN Return([annotations_list |->
                        [i \in 1..Len(detections) |->
                            [boundingBox |-> detections[i].bbox,
                             class |-> detections[i].class_name,
                             score |-> IF detections[i].confidence > 100
                                       THEN 100 ELSE detections[i].confidence]],
                    img_height |-> response.shape.items[1],
                    img_width |-> response.shape.items[2]])

\* Mutant of run_leafmachine: response_json["detections"] in place of
\* response_json.get("detections", []), so a missing array raises.
run_leafmachine_strict(image_uri, response) ==
    IF ~response.ok THEN Raise(HTTPErrorText)
    ELSE IF response.detections.kind = "missing" THEN Raise(KeyError("detections"))
    ELSE IF response.shape.kind = "nometa" THEN Raise(KeyError("metadata"))
    ELSE IF response.shape.kind = "noshape" THEN Raise(KeyError("orig_img_shape"))
    ELSE IF Len(response.shape.items) < 2 THEN Raise(UnpackErrorText(Len(response.shape.items)))
    ELSE IF response.detections.kind = "null" THEN Raise("'NoneType' object is not iterable")
    ELSE Return([annotations_list |->
                     [i \in 1..Len(response.detections.items) |->
                         [boundingBox |-> response.detections.items[i].bbox,
                          class |-> response.detections.items[i].class_name,
                          score |-> response.detections.items[i].confidence]],
                 img_height |-> response.shape.items[1],
                 img_width |-> response.shape.items[2]])

\* run_leafmachine: what the call returns or raises, given the response the
\* service gave to the POST of {"image_url": image_uri, "model_name": ...}.
run_leafmachine(image_uri, response) ==
    IF ~response.ok THEN Raise(HTTPErrorText)
    ELSE IF response.shape.kind = "nometa" THEN Raise(KeyError("metadata"))
    ELSE IF response.shape.kind = "noshape" THEN Raise(KeyError("orig_img_shape"))
    ELSE LET img_shape == response.shape.items
             head == SubSeq(img_shape, 1, IF Len(img_shape) < 2 THEN Len(img_shape) ELSE 2)
         IN IF Len(head) # 2 THEN Raise(UnpackErrorText(Len(head)))
            ELSE IF response.detections.kind = "null"
                 THEN Raise("'NoneType' object is not iterable")
            ELSE LET detections == IF response.detections.kind = "missing"
                                   THEN << >>
                                   ELSE response.detections.items
                 IN Return([annotations_list |->
                                [i \in 1..Len(detections) |->
                                    [boundingBox |-> detections[i].bbox,
                                     class |-> detections[i].class_name,
                                     score |-> detections[i].confidence]],
                            img_height |-> head[1],
                            img_width |-> head[2]])

map_to_annotation_event(annotations, job_id) ==
    [annotations |-> annotations, jobId |-> job_id]

\* Mutant of map_result_to_annotation: timestamp_now is called again for every
\* detection, and each call reads a later time.
map_result_to_annotation_resampled(digital_object, additional_info_annotations, image_height, image_width, now) ==
    LET N == Len(additional_info_annotations)
    IN IF N = 0 THEN Return(<< >>)
       ELSE IF ~HasKey(digital_object, ODS_ID) THEN Raise(KeyError(ODS_ID))
       ELSE IF ~HasKey(digital_object, ODS_TYPE) THEN Raise(KeyError(ODS_TYPE))
       ELSE Return([i \in 1..N |->
                map_to_annotation(
                    get_agent, now + i - 1, additional_info_annotations[i],
                    build_fragment_selector(additional_info_annotations[i], image_width, image_height),
                    digital_object[ODS_ID], digital_object[ODS_TYPE], ModelRef)])

\* Mutant of map_result_to_annotation: height and width are handed to
\* build_fragment_selector in the order of the keyword call of the empty path.
map_result_to_annotation_dims_swapped(digital_object, additional_info_annotations, image_height, image_width, now) ==
    LET N == Len(additional_info_annotations)
    IN IF N = 0 THEN Return(<< >>)
       ELSE IF ~HasKey(digital_object, ODS_ID) THEN Raise(KeyError(ODS_ID))
       ELSE IF ~HasKey(digital_object, ODS_TYPE) THEN Raise(KeyError(ODS_TYPE))
       ELSE Return([i \in 1..N |->
                map_to_annotation(
                    get_agent, now, additional_info_annotations[i],
                    build_fragment_selector(additional_info_annotations[i], image_height, image_width),
                    digital_object[ODS_ID], digital_object[ODS_TYPE], ModelRef)])

\* Mutant of map_result_to_annotation: the annotations come out in reverse order.
map_result_to_annotation_reversed(digital_object, additional_info_annotations, image_height, image_width, now) ==
    LET N == Len(additional_info_annotations)
    IN IF N = 0 THEN Return(<< >>)
       ELSE IF ~HasKey(digital_object, ODS_ID) THEN Raise(KeyError(ODS_ID))
       ELSE IF ~HasKey(digital_object, ODS_TYPE) THEN Raise(KeyError(ODS_TYPE))
       ELSE Return([i \in 1..N |->
                map_to_annotation(
                    get_agent, now, additional_info_annotations[N + 1 - i],
                    build_fragment_selector(additional_info_annotations[N + 1 - i], image_width, image_height),
                    digital_object[ODS_ID], digital_object[ODS_TYPE], ModelRef)])

\* map_result_to_annotation; now is what its one call of timestamp_now returns.
map_result_to_annotation(digital_object, additional_info_annotations, image_height, image_width, now) ==
    LET timestamp == now
        ods_agent == get_agent
        N == Len(additional_info_annotations)
    IN IF N = 0 THEN Return(<< >>)
       ELSE IF ~HasKey(digital_object, ODS_ID) THEN Raise(KeyError(ODS_ID))
       ELSE IF ~HasKey(digital_object, ODS_TYPE) THEN Raise(KeyError(ODS_TYPE))
       ELSE Return([i \in 1..N |->
                map_to_annotation(
                    ods_agent, timestamp, additional_info_annotations[i],
                    build_fragment_selector(additional_info_annotations[i], image_width, image_height),
                    digital_object[ODS_ID], digital_object[ODS_TYPE], ModelRef)])

\* Mutant of map_result_to_empty_annotation: height and width are swapped.
map_result_to_empty_annotation_swapped(digital_object, image_height, image_width, now) ==
    IF ~HasKey(digital_object, ODS_ID) THEN Raise(KeyError(ODS_ID))
    ELSE IF ~HasKey(digital_object, ODS_TYPE) THEN Raise(KeyError(ODS_TYPE))
    ELSE Return(map_to_annotation_str_val(
             get_agent, now, EmptyMessage,
             build_entire_image_fragment_selector(image_width, image_height),
             digital_object[ODS_ID], digital_object[ODS_TYPE], "", "oa:commenting"))

\* map_result_to_empty_annotation; now is what its call of timestamp_now returns.
map_result_to_empty_annotation(digital_object, image_height, image_width, now) ==
    LET timestamp == now
        message == EmptyMessage
        selector == build_entire_image_fragment_selector(image_height, image_width)
    IN IF ~HasKey(digital_object, ODS_ID) THEN Raise(KeyError(ODS_ID))
       ELSE IF ~HasKey(digital_object, ODS_TYPE) THEN Raise(KeyError(ODS_TYPE))
       ELSE Return(map_to_annotation_str_val(
                get_agent, timestamp, message, selector,
                digital_object[ODS_ID], digital_object[ODS_TYPE], "", "oa:commenting"))

\* start_kafka, the branch on the number of detections: the annotation event,
\* or the exception raised on the way to it.
build_annotation_event(msg, digital_object, annotations_list, image_height, image_width, now) ==
    IF Len(annotations_list) = 0
    THEN IF ~HasKey(msg, "jobId") THEN Raise(KeyError("jobId"))
         ELSE LET a == map_result_to_empty_annotation(digital_object, image_height, image_width, now)
              IN IF ~a.ok THEN a
                 ELSE Return(map_to_annotation_event(<<a.value>>, msg["jobId"]))
    ELSE LET as == map_result_to_annotation(digital_object, annotations_list, image_height, image_width, now)
         IN IF ~as.ok THEN as
            ELSE IF ~HasKey(msg, "jobId") THEN Raise(KeyError("jobId"))
            ELSE Return(map_to_annotation_event(as.value, msg["jobId"]))

\* Mutant of send_failed_message: job id and message change places.
send_failed_message_swapped(job_id, message) ==
    [topic |-> FailedTopic, value |-> [jobId |-> message, errorMessage |-> job_id]]

send_failed_message(job_id, message) ==
    [topic |-> FailedTopic, value |-> [jobId |-> job_id, errorMessage |-> message]]

publish_annotation_event(event) ==
    [topic |-> ProducerTopic, value |-> event]

\* ------------------------------------------------------------- the state
VARIABLES
    pc,                          \* where start_kafka is in its loop
    n,                           \* how many messages were taken from the consumer
    json_value,                  \* the message being processed
    response,                    \* the inference service's answer for it
    additional_info_annotations, \* run_leafmachine's detections
    image_height,
    image_width,
    annotation_event,            \* the event built for the message
    err,                         \* str(e) of the exception caught
    raised,                      \* the step that raised it, "" when none did
    sent,                        \* producer.send calls done for this message
    log,                         \* collaborator calls and sends, all messages
    clock                        \* the time, which every MapResult moves on

vars == <<pc, n, json_value, response, additional_info_annotations, image_height,
          image_width, annotation_event, err, raised, sent, log, clock>>

NoMessage == [k \in {} |-> "none"]
NoEvent == [annotations |-> << >>, jobId |-> ""]

Init ==
    /\ pc = "idle"
    /\ n = 0
    /\ json_value = NoMessage
    /\ response = BadResponse
    /\ additional_info_annotations = << >>
    /\ image_height = 0
    /\ image_width = 0
    /\ annotation_event = NoEvent
    /\ err = ""
    /\ raised = ""
    /\ sent = << >>
    /\ log = << >>
    /\ clock = 1

Called(op) == Append(log, [msg |-> n, op |-> op])

\* ------------------------------------------------------------ the actions
\* Mutant of Consume: the next message is taken while the previous one is
\* still being processed.
Consume_Early ==
    /\ pc \in {"idle", "done", "infer", "map", "publish", "except"}
    /\ n < MaxMsgs
    /\ \E m \in Messages : json_value' = m
    /\ n' = n + 1
    /\ pc' = "mark"
    /\ response' = BadResponse
    /\ err' = ""
    /\ raised' = ""
    /\ sent' = << >>
    /\ UNCHANGED <<additional_info_annotations, image_height, image_width,
                   annotation_event, log, clock>>

\* for msg in consumer: the next message is taken once the body of the loop
\* has run to its end for the previous one.  The locals of start_kafka keep
\* the values of the previous iteration until the body assigns them again;
\* the response, the exception and the sends are those of the new message.
Consume ==
    /\ pc \in {"idle", "done"}
    /\ n < MaxMsgs
    /\ \E m \in Messages : json_value' = m
    /\ n' = n + 1
    /\ pc' = "mark"
    /\ response' = BadResponse
    /\ err' = ""
    /\ raised' = ""
    /\ sent' = << >>
    /\ UNCHANGED <<additional_info_annotations, image_height, image_width,
                   annotation_event, log, clock>>

\* Mutant of MarkRunning: the running-state call is left out.
MarkRunning_NotCalled ==
    /\ pc = "mark"
    /\ pc' = "infer"
    /\ UNCHANGED <<n, json_value, response, additional_info_annotations, image_height,
                   image_width, annotation_event, err, raised, sent, log, clock>>

\* shared.mark_job_as_running(job_id=json_value.get("jobId")): it returns or raises.
MarkRunning ==
    /\ pc = "mark"
    /\ log' = Called("mark")
    /\ \E markOk \in BOOLEAN :
          IF markOk
          THEN pc' = "infer" /\ UNCHANGED <<err, raised>>
          ELSE pc' = "except" /\ err' = "JobStateUpdateError" /\ raised' = "mark"
    /\ UNCHANGED <<n, json_value, response, additional_info_annotations, image_height,
                   image_width, annotation_event, sent, clock>>

\* Mutant of Infer: a request that fails is sent again.
Infer_Retry ==
    /\ pc = "infer"
    /\ HasKey(json_value, "object")
    /\ \E resp \in Responses :
          LET r == run_leafmachine(json_value["object"]["ac:accessURI"], resp)
          IN /\ response' = resp
             /\ log' = Called("infer")
             /\ IF r.ok
                THEN /\ additional_info_annotations' = r.value.annotations_list
                     /\ image_height' = r.value.img_height
                     /\ image_width' = r.value.img_width
                     /\ pc' = "map"
                ELSE /\ pc' = "infer"
                     /\ UNCHANGED <<additional_info_annotations, image_height, image_width>>
    /\ UNCHANGED <<n, json_value, annotation_event, err, raised, sent, clock>>

\* digital_object = json_value.get("object"); image_uri = digital_object.get(...);
\* run_leafmachine(image_uri): the object may be None, the service answers anything.
Infer ==
    /\ pc = "infer"
    /\ IF ~HasKey(json_value, "object")
       THEN /\ pc' = "except"
            /\ err' = "'NoneType' object has no attribute 'get'"
            /\ raised' = "object"
            /\ UNCHANGED <<response, additional_info_annotations, image_height, image_width, log>>
       ELSE \E resp \in Responses :
               LET r == run_leafmachine(json_value["object"]["ac:accessURI"], resp)
               IN /\ response' = resp
                  /\ log' = Called("infer")
                  /\ IF r.ok
                     THEN /\ additional_info_annotations' = r.value.annotations_list
                          /\ image_height' = r.value.img_height
                          /\ image_width' = r.value.img_width
                          /\ pc' = "map"
                          /\ UNCHANGED <<err, raised>>
                     ELSE /\ pc' = "except"
                          /\ err' = r.err
                          /\ raised' = "infer"
                          /\ UNCHANGED <<additional_info_annotations, image_height, image_width>>
    /\ UNCHANGED <<n, json_value, annotation_event, sent, clock>>

\* Mutant of MapResult: the list of annotations is kept from one message to
\* the next and the new annotations are appended to it.
MapResult_Accumulating ==
    /\ pc = "map"
    /\ LET now == clock + 1
           r == build_annotation_event(json_value, json_value["object"],
                    additional_info_annotations, image_height, image_width, now)
       IN /\ clock' = now
          /\ IF r.ok
             THEN /\ annotation_event' =
                        [r.value EXCEPT !.annotations = annotation_event.annotations \o @]
                  /\ pc' = "publish"
                  /\ UNCHANGED <<err, raised>>
             ELSE /\ pc' = "except"
                  /\ err' = r.err
                  /\ raised' = "map"
                  /\ UNCHANGED annotation_event
    /\ UNCHANGED <<n, json_value, response, additional_info_annotations, image_height,
                   image_width, sent, log>>

\* The branch on len(additional_info_annotations): map the result and build the
\* event.  timestamp_now reads a time later than that of the message before.
MapResult ==
    /\ pc = "map"
    /\ LET now == clock + 1
           r == build_annotation_event(json_value, json_value["object"],
                    additional_info_annotations, image_height, image_width, now)
       IN /\ clock' = now
          /\ IF r.ok
             THEN /\ annotation_event' = r.value
                  /\ pc' = "publish"
                  /\ UNCHANGED <<err, raised>>
             ELSE /\ pc' = "except"
                  /\ err' = r.err
                  /\ raised' = "map"
                  /\ UNCHANGED annotation_event
    /\ UNCHANGED <<n, json_value, response, additional_info_annotations, image_height,
                   image_width, sent, log>>

\* publish_annotation_event(annotation_event, producer): producer.send returns or raises.
Publish ==
    /\ pc = "publish"
    /\ \E sendOk \in BOOLEAN :
          IF sendOk
          THEN /\ sent' = Append(sent, publish_annotation_event(annotation_event))
               /\ log' = Called("event")
               /\ pc' = "done"
               /\ UNCHANGED <<err, raised>>
          ELSE /\ pc' = "except"
               /\ err' = "KafkaTimeoutError"
               /\ raised' = "publish"
               /\ UNCHANGED <<sent, log>>
    /\ UNCHANGED <<n, json_value, response, additional_info_annotations, image_height,
                   image_width, annotation_event, clock>>

\* except Exception as e: send_failed_message(json_value["jobId"], str(e), producer).
\* An exception raised in the handler leaves start_kafka: the worker ends.
Except ==
    /\ pc = "except"
    /\ IF ~HasKey(json_value, "jobId")
       THEN pc' = "crashed" /\ err' = KeyError("jobId") /\ UNCHANGED <<sent, log>>
       ELSE \E sendOk \in BOOLEAN :
               IF sendOk
               THEN /\ sent' = Append(sent, send_failed_message(json_value["jobId"], err))
                    /\ log' = Called("failed")
                    /\ pc' = "done"
                    /\ err' = err
               ELSE /\ pc' = "crashed"
                    /\ err' = "KafkaTimeoutError"
                    /\ UNCHANGED <<sent, log>>
    /\ UNCHANGED <<n, json_value, response, additional_info_annotations, image_height,
                   image_width, annotation_event, raised, clock>>

\* str(uuid.uuid4()), the job id run_local gives its event.
Uuids == {"uuid-a", "uuid-b"}

\* run_local(example), which __main__ calls in place of start_kafka when its
\* commented lines are swapped: the digital object comes from the DiSSCo API,
\* the inference request is made and the result mapped and logged.  No job is
\* marked as running, nothing is sent, and an exception leaves the function.
\* Its inference request is logged under message 0: no message was consumed.
RunLocal ==
    /\ pc = "idle"
    /\ n = 0
    /\ \E digital_object \in DigitalObjects, resp \in Responses, u \in Uuids :
          LET r == run_leafmachine(digital_object["ac:accessURI"], resp)
              ev == build_annotation_event(
                        [k \in {"jobId", "object"} |->
                            IF k = "jobId" THEN u ELSE digital_object],
                        digital_object, r.value.annotations_list,
                        r.value.img_height, r.value.img_width, clock + 1)
          IN /\ json_value' = [k \in {"attributes"} |-> digital_object]
             /\ response' = resp
             /\ log' = Called("infer")
             /\ IF ~r.ok
                THEN /\ pc' = "local_failed"
                     /\ err' = r.err
                     /\ raised' = "infer"
                     /\ UNCHANGED <<additional_info_annotations, image_height,
                                    image_width, annotation_event, clock>>
                ELSE /\ additional_info_annotations' = r.value.annotations_list
                     /\ image_height' = r.value.img_height
                     /\ image_width' = r.value.img_width
                     /\ clock' = clock + 1
                     /\ IF ev.ok
                        THEN /\ annotation_event' = ev.value
                             /\ pc' = "local_done"
                             /\ UNCHANGED <<err, raised>>
                        ELSE /\ pc' = "local_failed"
                             /\ err' = ev.err
                             /\ raised' = "map"
                             /\ UNCHANGED annotation_event
    /\ UNCHANGED <<n, sent>>

Next == Consume \/ MarkRunning \/ Infer \/ MapResult \/ Publish \/ Except \/ RunLocal

Spec == Init /\ [][Next]_vars

\* ------------------------------------------------ what the claims speak of
Finished == pc \in {"done", "crashed"}
HasJobId == HasKey(json_value, "jobId")
HasObject == HasKey(json_value, "object")
HasTarget == HasObject /\ HasKey(json_value["object"], ODS_ID) /\ HasKey(json_value["object"], ODS_TYPE)
Events == SelectSeq(sent, LAMBDA s : s.topic = ProducerTopic)
Failures == SelectSeq(sent, LAMBDA s : s.topic = FailedTopic)
CalledFor(m, op) == \E i \in DOMAIN log : log[i] = [msg |-> m, op |-> op]
CallsFor(m, op) == Cardinality({ i \in DOMAIN log : log[i] = [msg |-> m, op |-> op] })
\* run_leafmachine returned for the current message
InferenceReturned ==
    /\ CalledFor(n, "infer")
    /\ raised # "infer"
\* the detections of the current response, as run_leafmachine reads them
ReturnedDetections ==
    IF response.detections.kind = "list" THEN response.detections.items ELSE << >>

\* C1: a failure raised during the inference call, the mapping or the publish
\* of the event results in exactly one FailureRecord and no AnnotationEvent
\* for that message, and the two are never both sent for one message.
C1_FailureGivesOneRecord ==
    /\ (Finished /\ raised \in {"infer", "map", "publish"})
          => (Len(Failures) = 1 /\ Len(Events) = 0)
    /\ ~(Len(Failures) >= 1 /\ Len(Events) >= 1)

\* C2: every message that began processing ends Published or Failed, with
\* exactly one of the two sends; no exception leaves the except clause.
C2_EndsPublishedOrFailed ==
    /\ pc # "crashed"
    /\ pc = "done" => Len(Events) + Len(Failures) = 1

\* C3: every inference request in the log that was made for a consumed
\* message is preceded by a running-state call for the same message.
C3_RunningBeforeInference ==
    \A i \in DOMAIN log :
        (log[i].op = "infer" /\ log[i].msg >= 1) =>
            \E j \in 1..(i - 1) : log[j] = [msg |-> log[i].msg, op |-> "mark"]

\* C3 witness: the inference request of the second message was made.
C3_Witness ==
    /\ n = 2
    /\ pc = "map"
    /\ log[Len(log)] = [msg |-> 2, op |-> "infer"]

\* The event of the empty path: one commenting annotation with the fixed
\* message and the selector of the whole image, under the message's jobId.
IsEmptyEvent(ev) ==
    /\ ev.jobId = json_value["jobId"]
    /\ Len(ev.annotations) = 1
    /\ ev.annotations[1].motivation = "oa:commenting"
    /\ ev.annotations[1].body = EmptyMessage
    /\ ev.annotations[1].selector =
           [kind |-> "full", height |-> response.shape.items[1],
            width |-> response.shape.items[2]]

\* C4 as claimed: whenever the inference client returns an empty detection
\* list, the pipeline publishes the event of the empty path (stated of the
\* messages whose processing ran to its end in the loop body).
C4_EmptyAlwaysPublished ==
    (pc = "done" /\ InferenceReturned /\ Len(additional_info_annotations) = 0)
        => (Len(Events) = 1 /\ IsEmptyEvent(Events[1].value))

\* C4 as amended: when the inference client returns an empty detection list,
\* the event of the empty path is published if the message has a jobId, its
\* object carries identifier and type and the send does not fail; otherwise
\* no event is published for the message.
C4_EmptyPublishedWhenMappable ==
    (Finished /\ InferenceReturned /\ Len(additional_info_annotations) = 0)
        => IF HasJobId /\ HasTarget /\ raised # "publish"
           THEN Len(Events) = 1 /\ IsEmptyEvent(Events[1].value)
           ELSE Len(Events) = 0

\* C4 witness: the service returned an empty list and the event was sent.
C4_Witness ==
    /\ pc = "done"
    /\ response.ok
    /\ response.detections = [kind |-> "list", items |-> << >>]
    /\ Len(Events) = 1

\* C5: for N >= 1 returned detections the published event has exactly N
\* annotations, under the message's jobId, all with the one timestamp read
\* for the message.
C5_CountJobIdTimestamp ==
    \A k \in DOMAIN Events :
        Len(ReturnedDetections) >= 1 =>
            LET ev == Events[k].value
            IN /\ Len(ev.annotations) = Len(ReturnedDetections)
               /\ ev.jobId = json_value["jobId"]
               /\ \A i \in DOMAIN ev.annotations : ev.annotations[i].timestamp = clock

\* C5 witness: an event for two detections was sent.
C5_Witness ==
    /\ pc = "done"
    /\ Len(Events) = 1
    /\ Len(ReturnedDetections) = 2
    /\ clock = 2

\* The detection value run_leafmachine makes of one detection of the response.
DetectionValue(det) ==
    [boundingBox |-> det.bbox, class |-> det.class_name, score |-> det.confidence]

\* C6: the i-th annotation of the published event is the one mapped from the
\* i-th detection of the response.
C6_OrderPreserved ==
    \A k \in DOMAIN Events :
        Len(ReturnedDetections) >= 1 =>
            \A i \in DOMAIN ReturnedDetections :
                /\ i \in DOMAIN Events[k].value.annotations
                /\ Events[k].value.annotations[i].body = DetectionValue(ReturnedDetections[i])
                /\ Events[k].value.annotations[i].selector.box = ReturnedDetections[i].bbox

\* C6 witness: an event for two different detections was sent.
C6_Witness ==
    /\ Len(Events) = 1
    /\ Len(ReturnedDetections) = 2
    /\ ReturnedDetections[1] # ReturnedDetections[2]

\* C7: the calls and sends of one message are all made before the next
\* message is taken, so the log is grouped by message in consumption order
\* and every earlier message has had its one send.
C7_Sequential ==
    /\ \A i, j \in DOMAIN log :
          i < j =>
             /\ log[i].msg <= log[j].msg
             /\ log[i].msg < log[j].msg =>
                   \E k \in i..(j - 1) :
                       log[k].msg = log[i].msg /\ log[k].op \in {"event", "failed"}
    /\ \A m \in 1..(n - 1) : CallsFor(m, "event") + CallsFor(m, "failed") = 1

\* C7 witness: two messages were processed, an event then a failure record.
C7_Witness ==
    /\ n = 2
    /\ pc = "done"
    /\ CalledFor(1, "event")
    /\ CalledFor(2, "infer")
    /\ CalledFor(2, "failed")

\* C8: if the running-state call fails, a FailureRecord is published, no
\* inference request is made and no AnnotationEvent is published.
C8_MarkFailureGivesRecord ==
    (Finished /\ raised = "mark")
        => (Len(Failures) = 1 /\ ~CalledFor(n, "infer") /\ Len(Events) = 0)

\* C9: a message whose object lacks identifier or type ends with a
\* FailureRecord and no AnnotationEvent, and no event carries annotations for
\* only some of the returned detections.
C9_MissingTargetGivesRecord ==
    /\ (Finished /\ HasObject /\ ~HasTarget) => (Len(Failures) = 1 /\ Len(Events) = 0)
    /\ \A k \in DOMAIN Events :
          Len(Events[k].value.annotations) >= Len(ReturnedDetections)

ShapeValid == response.shape.kind = "list" /\ Len(response.shape.items) >= 2

\* C10 as claimed: a success response without a detections array makes the
\* inference client fail, and the message ends with a FailureRecord and no
\* AnnotationEvent.
C10_NoDetectionsFails ==
    (n >= 1 /\ CalledFor(n, "infer") /\ response.ok /\ response.detections.kind # "list")
        => /\ raised = "infer"
           /\ Finished => (Len(Failures) = 1 /\ Len(Events) = 0)

\* C10 as amended: with a success response whose detections entry is absent
\* (and a valid shape) run_leafmachine returns an empty list and the message
\* takes the empty path, publishing the commenting event when the message has
\* a jobId, the object carries identifier and type and the send does not
\* fail; with a null detections entry run_leafmachine fails and no event is
\* published.
C10_AbsentDetectionsAreEmpty ==
    /\ (n >= 1 /\ CalledFor(n, "infer") /\ response.ok /\ ShapeValid
            /\ response.detections.kind = "missing")
          => /\ raised # "infer"
             /\ additional_info_annotations = << >>
             /\ (Finished /\ HasJobId /\ HasTarget /\ raised # "publish")
                   => /\ Len(Events) = 1
                      /\ IsEmptyEvent(Events[1].value)
                      /\ Len(Failures) = 0
    /\ (n >= 1 /\ CalledFor(n, "infer") /\ response.ok /\ response.detections.kind = "null")
          => (raised = "infer" /\ Len(Events) = 0)

\* C10 witness: the response had no detections entry and the event was sent.
C10_Witness ==
    /\ pc = "done"
    /\ response.ok
    /\ response.detections.kind = "missing"
    /\ Len(Events) = 1

\* C11: a success response whose original-image shape is missing or has fewer
\* than two entries makes run_leafmachine fail, and the message ends with a
\* FailureRecord and no AnnotationEvent, whatever the detections entry holds.
C11_BadShapeGivesRecord ==
    (n >= 1 /\ CalledFor(n, "infer") /\ response.ok /\ ~ShapeValid)
        => /\ raised = "infer"
           /\ Len(Events) = 0
           /\ Finished => Len(Failures) = 1

\* C12: for every consumed message the running-state call and the inference
\* request are each made at most once, whatever fails, and after the send that
\* ends a message nothing more is called for it.
C12_NoRetry ==
    /\ \A m \in 1..n : CallsFor(m, "mark") <= 1 /\ CallsFor(m, "infer") <= 1
    /\ \A i, j \in DOMAIN log :
          (i < j /\ log[i].op \in {"event", "failed"}) => log[j].msg # log[i].msg

\* C12 witness: the service answered with a non-success status, the one
\* request was followed by the failure record, and the next message was taken.
C12_Witness ==
    /\ n = 2
    /\ CallsFor(1, "infer") = 1
    /\ CalledFor(1, "failed")
    /\ pc = "done"
    /\ ~response.ok
    /\ CallsFor(2, "infer") = 1
    /\ raised = "infer"

\* C13: every outbound message of a message carries the inbound jobId, and a
\* FailureRecord carries the message text of the exception that was caught.
C13_JobIdCarried ==
    \A k \in DOMAIN sent :
        /\ HasJobId
        /\ sent[k].value.jobId = json_value["jobId"]
        /\ sent[k].topic = FailedTopic =>
              (raised # "" /\ sent[k].value.errorMessage = err)
        /\ sent[k].topic = ProducerTopic => raised = ""

\* C13 witness: a failure record for job J2 with the text of the KeyError of
\* the mapping was sent.
C13_Witness ==
    /\ pc = "done"
    /\ raised = "map"
    /\ sent = << [topic |-> FailedTopic,
                  value |-> [jobId |-> "J2", errorMessage |-> KeyError(ODS_ID)]] >>

\* A send with the timestamps of its annotations blanked.
WithoutTime(s) ==
    IF s.topic = ProducerTopic
    THEN [s EXCEPT !.value.annotations =
              [i \in DOMAIN @ |-> [@[i] EXCEPT !.timestamp = 0]]]
    ELSE s

\* What the current message and the collaborators' answers to it determine as
\* its outbound message: nothing when the handler raised, the failure record
\* of the exception when a step raised, else the event mapped from the
\* response.  Nothing of an earlier message enters it.
OutboundOf(msg, resp, step, text, handlerRaised) ==
    IF handlerRaised THEN << >>
    ELSE IF step # ""
    THEN << send_failed_message(msg["jobId"], text) >>
    ELSE LET res == run_leafmachine(msg["object"]["ac:accessURI"], resp).value
         IN << publish_annotation_event(
                   build_annotation_event(msg, msg["object"], res.annotations_list,
                                          res.img_height, res.img_width, 0).value) >>

\* C14: the outbound message of a finished message, timestamps apart, is the
\* one its own content and the collaborators' answers to it determine, whatever
\* was processed before and whatever start_kafka's locals still hold.
C14_NothingRetained ==
    Finished =>
        [k \in DOMAIN sent |-> WithoutTime(sent[k])]
            = OutboundOf(json_value, response, raised, err, pc = "crashed")

\* C14 witness: the second message was published with one detection after a
\* first message that was published too.
C14_Witness ==
    /\ n = 2
    /\ pc = "done"
    /\ CalledFor(1, "event")
    /\ Len(Events) = 1
    /\ Len(ReturnedDetections) = 1
    /\ Len(annotation_event.annotations) = 1

\* C15: the selector of the annotation of a detection holds that detection's
\* box unchanged, with the height (first entry) and the width (second entry)
\* of the original-image shape of the same response; the selector of the
\* empty path holds the same height and width.
C15_SelectorEchoesBox ==
    \A k \in DOMAIN Events :
        LET anns == Events[k].value.annotations
            height == response.shape.items[1]
            width == response.shape.items[2]
        IN IF Len(ReturnedDetections) >= 1
           THEN \A i \in DOMAIN anns :
                    anns[i].selector =
                        [kind |-> "box", box |-> ReturnedDetections[i].bbox,
                         height |-> height, width |-> width]
           ELSE \A i \in DOMAIN anns :
                    /\ anns[i].selector.kind = "full"
                    /\ anns[i].selector.height = height
                    /\ anns[i].selector.width = width

\* C15 witness: an event was sent whose second detection has a box outside
\* the image of 4 by 3.
C15_Witness ==
    /\ Len(Events) = 1
    /\ response.shape.items = <<4, 3, 1>>
    /\ Len(ReturnedDetections) = 2
    /\ ReturnedDetections[2].bbox = <<2, 1, 9, 9>>
    /\ Events[1].value.annotations[2].selector.box = <<2, 1, 9, 9>>

\* C16: the body of the annotation of every returned detection holds exactly
\* that detection's box, class label and confidence, and no detection is
\* dropped between the response and the event.
C16_BodyIsDetection ==
    \A k \in DOMAIN Events :
        Len(ReturnedDetections) >= 1 =>
            LET anns == Events[k].value.annotations
            IN /\ Len(anns) = Len(ReturnedDetections)
               /\ \A i \in DOMAIN anns :
                     /\ anns[i].motivation = "oa:classifying"
                     /\ DOMAIN anns[i].body = {"boundingBox", "class", "score"}
                     /\ anns[i].body.boundingBox = ReturnedDetections[i].bbox
                     /\ anns[i].body.class = ReturnedDetections[i].class_name
                     /\ anns[i].body.score = ReturnedDetections[i].confidence

\* C16 witness: an event was sent for the same detection returned twice, with
\* a confidence of 150.
C16_Witness ==
    /\ Len(Events) = 1
    /\ Len(ReturnedDetections) = 2
    /\ ReturnedDetections[1] = ReturnedDetections[2]
    /\ Events[1].value.annotations[2].body.score = 150
====
